---- MODULE Spec2Model ----
(***************************************************************************)
(* Model of the CabinetSense wiki archiver (scrap_pdf.py): the recursive   *)
(* crawl with its visited set and page archive, and the release-notes      *)
(* harvester download_release_pdfs.                                        *)
(*                                                                         *)
(* Strings are sequences of tokens: a token is a delimiter of the URL      *)
(* syntax (":", "//", "/", "?", "#", ".") or a run of other characters.    *)
(* The remote site is the environment: the body of a page is chosen when   *)
(* the page is fetched, from every body within the bounds.                 *)
(***************************************************************************)
EXTENDS Integers, Sequences, FiniteSets, TLC

\* ---------------------------------------------------------------- bounds
\* the most anchors on one page
MaxLinks == 2
\* the most img elements on one page
MaxImgs == 1
\* the most anchors on the release index page
MaxAnchors == 2
\* the most chunks in the body of a download
MaxChunks == 2
\* the most img elements of a document handed to clean_html on its own
MaxDocImgs == 2

\* ------------------------------------------------------- token strings
Min(S) == CHOOSE x \in S : \A y \in S : x <= y

\* index of the first token of s that is in toks, 0 when there is none
Find(s, toks) ==
  LET I == {i \in 1..Len(s) : s[i] \in toks}
  IN IF I = {} THEN 0 ELSE Min(I)

\* str.lower(), token by token
LowerTok(t) ==
  CASE t = "MAILTO" -> "mailto"
    [] t = "HTTPS" -> "https"
    [] t = "PDF" -> "pdf"
    [] t = "EXAMPLE" -> "example"
    [] OTHER -> t

lower(s) == [i \in 1..Len(s) |-> LowerTok(s[i])]

startswith(s, p) == Len(s) >= Len(p) /\ SubSeq(s, 1, Len(p)) = p

endswith(s, p) == Len(s) >= Len(p) /\ SubSeq(s, Len(s) - Len(p) + 1, Len(s)) = p

\* sub in s
Contains(s, sub) ==
  \E i \in 1..Len(s) : i + Len(sub) - 1 <= Len(s) /\ SubSeq(s, i, i + Len(sub) - 1) = sub

\* s.split('#')[0]
SplitHash(s) ==
  LET i == Find(s, {"#"})
  IN IF i = 0 THEN s ELSE SubSeq(s, 1, i - 1)

\* ------------------------------------------------------- urllib.parse
Delims == {":", "//", "/", "?", "#", ".", "=", "&"}
uses_relative == {"", "http", "https", "ftp", "file"}
uses_netloc == {"", "http", "https", "ftp", "file"}

\* the scheme of a URL and what follows its ":"
SplitScheme(s) ==
  IF Len(s) >= 2 /\ s[2] = ":" /\ s[1] \notin Delims
  THEN [scheme |-> LowerTok(s[1]), rest |-> SubSeq(s, 3, Len(s))]
  ELSE [scheme |-> "", rest |-> s]

\* the netloc: what follows a leading "//" up to the first "/", "?" or "#"
SplitNetloc(r) ==
  IF Len(r) >= 1 /\ r[1] = "//"
  THEN LET e == Find(Tail(r), {"/", "?", "#"})
       IN IF e = 0 THEN [netloc |-> Tail(r), rest |-> <<>>]
          ELSE [netloc |-> SubSeq(r, 2, e), rest |-> SubSeq(r, e + 1, Len(r))]
  ELSE [netloc |-> <<>>, rest |-> r]

\* s.split(c, 1): what is before the first c and what is after it
SplitAt(s, c) ==
  LET i == Find(s, {c})
  IN IF i = 0 THEN [before |-> s, after |-> <<>>]
     ELSE [before |-> SubSeq(s, 1, i - 1), after |-> SubSeq(s, i + 1, Len(s))]

\* urlparse: [scheme, netloc, path, query, fragment]
urlparse(s) ==
  LET a == SplitScheme(s)
      b == SplitNetloc(a.rest)
      c == SplitAt(b.rest, "#")
      d == SplitAt(c.before, "?")
  IN [scheme |-> a.scheme, netloc |-> b.netloc, path |-> d.before,
      query |-> d.after, fragment |-> c.after]

\* urlunparse
HasNetloc(p) == p.netloc # <<>> \/ (p.scheme # "" /\ p.scheme \in uses_netloc)

urlunparse(p) ==
  (IF p.scheme # "" THEN <<p.scheme, ":">> ELSE <<>>)
     \o (IF HasNetloc(p) THEN <<"//">> \o p.netloc ELSE <<>>)
     \o (IF HasNetloc(p) /\ p.path # <<>> /\ p.path[1] # "/"
         THEN <<"/">> \o p.path ELSE p.path)
     \o (IF p.query # <<>> THEN <<"?">> \o p.query ELSE <<>>)
     \o (IF p.fragment # <<>> THEN <<"#">> \o p.fragment ELSE <<>>)

\* the directory of a path: the path up to its last "/" (base_parts without
\* the last segment)
DirOf(path) ==
  LET I == {i \in 1..Len(path) : path[i] = "/"}
  IN IF I = {} THEN <<>> ELSE SubSeq(path, 1, CHOOSE i \in I : \A j \in I : j <= i)

\* urljoin for a url of the base's scheme, without a netloc of its own: the
\* netloc is the base's, the path is resolved against the base's
JoinPath(b, u) ==
  IF u.path = <<>>
  THEN [u EXCEPT !.netloc = b.netloc, !.path = b.path,
                 !.query = IF u.query = <<>> THEN b.query ELSE u.query]
  ELSE IF u.path[1] = "/" THEN [u EXCEPT !.netloc = b.netloc]
  ELSE [u EXCEPT !.netloc = b.netloc, !.path = DirOf(b.path) \o u.path]

JoinParsed(b, u, url) ==
  IF u.scheme # b.scheme \/ u.scheme \notin uses_relative THEN url
  ELSE IF u.scheme \in uses_netloc /\ u.netloc # <<>> THEN urlunparse(u)
  ELSE urlunparse(JoinPath(b, u))

\* a url parsed with the base's scheme as its default scheme
WithScheme(u, scheme) == IF u.scheme = "" THEN [u EXCEPT !.scheme = scheme] ELSE u

\* urljoin(base, url), for paths without "." and ".." segments
urljoin(base, url) ==
  IF url = <<>> THEN base
  ELSE IF base = <<>> THEN url
  ELSE JoinParsed(urlparse(base),
                  WithScheme(urlparse(url), urlparse(base).scheme), url)

\* ------------------------------------------------------- configuration
ROOT_URL == <<"https", ":", "//", "example", ".", "com", "/", "home">>
BUILD_HISTORY == <<"https", ":", "//", "example", ".", "com", "/", "build-history">>

\* ---------------------------------------------------------------- sanitize
\* re.sub(r"[^A-Za-z0-9]+", "_", path.strip("/")): the word tokens of the
\* path, every run of delimiters between them replaced by "_"
RECURSIVE Slug(_)
Slug(path) ==
  IF path = <<>> THEN <<>>
  ELSE IF Head(path) \in Delims
       THEN IF Tail(path) # <<>> /\ Head(Tail(path)) \in Delims
            THEN Slug(Tail(path))
            ELSE <<"_">> \o Slug(Tail(path))
       ELSE <<Head(path)>> \o Slug(Tail(path))

RECURSIVE StripSlashes(_)
StripSlashes(path) ==
  IF path # <<>> /\ Head(path) = "/" THEN StripSlashes(Tail(path))
  ELSE IF path # <<>> /\ path[Len(path)] = "/"
       THEN StripSlashes(SubSeq(path, 1, Len(path) - 1))
       ELSE path

\* the first 8 hex digits of sha1(url): a function of the whole URL, taken to
\* be free of collisions on the URLs of the model
sha1_8(url) == <<"sha1">> \o url

sanitize(url, ext) ==
  LET s == Slug(StripSlashes(urlparse(url).path))
  IN [name |-> IF s = <<>> THEN <<"page">> ELSE s,
      digest |-> sha1_8(url), ext |-> ext]

\* ------------------------------------------------------------ the site
\* the hrefs an anchor of a crawled page may carry
CrawlHrefs ==
  { <<"/", "a">>,
    <<"b">>,
    <<"/", "home", "#", "top">>,
    <<"MAILTO", ":", "x@y">>,
    <<"https", ":", "//", "other", ".", "example", ".", "com", "/", "x">> }

\* the hrefs of a site with telephone and script links and a link that
\* names another host without a scheme
SchemeHrefs ==
  { <<"/", "a", "#", "top">>,
    <<"tel", ":", "1">>,
    <<"javascript", ":", "void(0)">>,
    <<"MAILTO", ":", "x@y">>,
    <<"//", "other", ".", "example", ".", "com", "/", "x">> }

\* the src attributes an img of a crawled page may carry
ImgSrcs ==
  { <<"data", ":", "image/png;base64,AAAA">>,
    <<"https", ":", "//", "example", ".", "com", "/", "x.png">> }

SeqsUpTo(S, n) == UNION {[1..k -> S] : k \in 0..n}

\* the img elements a fetched document may carry, in document order. Its
\* anchors are revealed one at a time as crawl's loop reaches them: no step
\* before reads them, so the document is any sequence of at most MaxLinks
\* anchors over CrawlHrefs.
Pages == [imgs : SeqsUpTo(ImgSrcs, MaxImgs)]

\* session.get(url) raises for a URL that is no http(s) URL with a host
\* (requests: MissingSchema, InvalidSchema, InvalidURL)
CanFetch(url) ==
  LET p == urlparse(url) IN p.scheme \in {"http", "https"} /\ p.netloc # <<>>

\* ---------------------------------------------------------------- state
VARIABLES
  hrefs,      \* the hrefs the anchors of the site's pages carry
  visited,    \* the visited set of the running process
  stack,      \* the call stack of crawl: frames [url, pc, n], n the anchors
              \* of the page the loop has taken
  pagesDir,   \* PAGES_DIR: file name -> [src, version], version the number
              \* of times the file has been written
  had,        \* PAGES_DIR as it was when the running crawl started
  fetches,    \* this run: url -> GETs issued by crawl for it
  archives,   \* this run: url -> calls of save_html_as_pdf for it
  failed,     \* this run: urls whose fetch failed
  renderErr,  \* this run: urls whose PDF conversion failed
  site,       \* this run: fetched url -> the urls its anchors seen so far
              \* lead to (internal, not mailto)
  lastSave,   \* the last call of save_html_as_pdf: its url, whether the file
              \* existed, the imgs of the page with a src that is no data:
              \* URI, the img GETs issued, whether CreatePDF ran, its
              \* result.err, whether the file was written
  hpc,        \* download_release_pdfs: "idle", "loop" (over the anchors),
              \* "done"
  hn,         \* the anchors of the index page the loop has taken
  count,      \* the local count
  relDir,     \* RELEASES_DIR: file name -> [src, data, version], data the
              \* chunks written
  dlGets,     \* this run: download url -> GETs issued for it
  saved,      \* this run: download url -> times it was counted
  lastDl,     \* what the loop did for the last anchor it took (body: the
              \* chunks the response streamed, for a download that was counted)
  cdoc,       \* clean_html on its own: the document it is called with
  cresps,     \* the responses the GETs of its imgs are answered with
  cout,       \* whether the call has returned, what it returned and the
              \* GETs it issued
  called,     \* a helper called on its own: its name, "none" before any call
  arg,        \* the argument of the call
  ret,        \* what the call returned
  seen,       \* scrap_wiki.py: the seen set of the running process
  wstack,     \* the call stack of crawl_page: frames [url, pc, n]
  wstate,     \* "idle", "running", "done" (crawl_page(START_URL) returned)
              \* or "crashed" (an exception ended the process)
  wfetches,   \* this run: the urls requests.get was called with
  wfailed,    \* this run: the urls whose GET or raise_for_status raised
  wikiDir     \* OUTPUT_DIR: file name -> the url whose text it holds

crawlVars == <<hrefs, visited, stack, pagesDir, had, fetches, archives, failed,
               renderErr, site, lastSave>>

harvestVars == <<hpc, hn, count, relDir, dlGets, saved, lastDl>>

cleanVars == <<cdoc, cresps, cout>>

helperVars == <<called, arg, ret>>

wikiVars == <<seen, wstack, wstate, wfetches, wfailed, wikiDir>>

vars == <<hrefs, visited, stack, pagesDir, had, fetches, archives, failed, renderErr,
          site, lastSave, hpc, hn, count, relDir, dlGets, saved, lastDl,
          cdoc, cresps, cout, called, arg, ret,
          seen, wstack, wstate, wfetches, wfailed, wikiDir>>

Count(f, u) == IF u \in DOMAIN f THEN f[u] ELSE 0
Bump(f, u) == [v \in DOMAIN f \cup {u} |-> IF v = u THEN Count(f, u) + 1 ELSE f[v]]
Put(f, k, x) == [v \in DOMAIN f \cup {k} |-> IF v = k THEN x ELSE f[v]]
Empty == [v \in {} |-> 0]

NoSave == [url |-> <<>>, existed |-> FALSE, netImgs |-> 0, gets |-> 0,
           converted |-> FALSE, err |-> FALSE, wrote |-> FALSE]

\* ------------------------------------------------------------ clean_html
IsDataURI(src) == startswith(src, <<"data", ":">>)

\* the imgs of a document that clean_html fetches
NetImgs(html) == {i \in 1..Len(html.imgs) : ~IsDataURI(html.imgs[i])}

\* the base64 alphabet: the character of the sextet v is B64Chars[v + 1]
B64Chars ==
  << "A", "B", "C", "D", "E", "F", "G", "H", "I", "J", "K", "L", "M", "N", "O", "P",
     "Q", "R", "S", "T", "U", "V", "W", "X", "Y", "Z", "a", "b", "c", "d", "e", "f",
     "g", "h", "i", "j", "k", "l", "m", "n", "o", "p", "q", "r", "s", "t", "u", "v",
     "w", "x", "y", "z", "0", "1", "2", "3", "4", "5", "6", "7", "8", "9", "+", "/" >>

\* base64.b64encode(content).decode('ascii'), content a sequence of bytes:
\* every three bytes give four characters, a last group of one or two bytes
\* is padded with "="
RECURSIVE b64encode(_)
b64encode(bytes) ==
  IF bytes = <<>> THEN <<>>
  ELSE IF Len(bytes) = 1
       THEN << B64Chars[(bytes[1] \div 4) + 1],
               B64Chars[((bytes[1] % 4) * 16) + 1], "=", "=" >>
  ELSE IF Len(bytes) = 2
       THEN << B64Chars[(bytes[1] \div 4) + 1],
               B64Chars[((bytes[1] % 4) * 16 + bytes[2] \div 16) + 1],
               B64Chars[((bytes[2] % 16) * 4) + 1], "=" >>
  ELSE << B64Chars[(bytes[1] \div 4) + 1],
          B64Chars[((bytes[1] % 4) * 16 + bytes[2] \div 16) + 1],
          B64Chars[((bytes[2] % 16) * 4 + bytes[3] \div 64) + 1],
          B64Chars[(bytes[3] % 64) + 1] >>
       \o b64encode(SubSeq(bytes, 4, Len(bytes)))

\* resp.headers.get(name, default)
HeaderGet(headers, name, default) ==
  IF name \in DOMAIN headers THEN headers[name] ELSE default

\* f"data:{ctype};base64,{data_b64}" for a response of the GET of an img
DataURI(resp) ==
  <<"data", ":">> \o HeaderGet(resp.headers, "Content-Type", <<"image/png">>)
     \o <<";", "base64", ",">> \o b64encode(resp.content)

\* what session.get(src) and raise_for_status may do for an img: raise, or
\* answer with headers and a body
NoHeaders == [h \in {} |-> <<>>]
ImgContents == {<<>>, <<255>>, <<137, 80>>, <<71, 73, 70, 56>>}
ImgResponses ==
  { r \in [ok : BOOLEAN,
           headers : {NoHeaders, [h \in {"Content-Type"} |-> <<"image/jpeg">>]},
           content : ImgContents] :
      ~r.ok => (r.headers = NoHeaders /\ r.content = <<>>) }

\* the responses an img of a crawled page is answered with
CrawlImgResponses ==
  { r \in ImgResponses : r.headers = NoHeaders /\ (r.ok => r.content = <<137, 80>>) }

\* the responses the imgs of a document may get, one for each: an img whose
\* src is a data: URI is not fetched, and the GET of a src that is no
\* http(s) URL with a host raises
ImgFetches(imgs, R) ==
  { f \in [1..Len(imgs) -> R] :
      \A i \in 1..Len(imgs) :
        (IsDataURI(imgs[i]) \/ ~CanFetch(imgs[i])) => ~f[i].ok }

\* an img whose fetch failed is left in the document as it was
RECURSIVE CleanImgs_KeepsFailed(_, _, _)
CleanImgs_KeepsFailed(imgs, resps, i) ==
  IF i > Len(imgs) THEN <<>>
  ELSE IF IsDataURI(imgs[i]) \/ ~resps[i].ok
       THEN <<imgs[i]>> \o CleanImgs_KeepsFailed(imgs, resps, i + 1)
       ELSE <<DataURI(resps[i])>> \o CleanImgs_KeepsFailed(imgs, resps, i + 1)

\* the img pass of clean_html: an img with a data: src is kept as it is, any
\* other is fetched and kept with a data: URI, or removed when the fetch
\* fails. resps[i] is the outcome of the fetch for the i-th img.
RECURSIVE CleanImgs(_, _, _)
CleanImgs(imgs, resps, i) ==
  IF i > Len(imgs) THEN <<>>
  ELSE IF IsDataURI(imgs[i])
       THEN <<imgs[i]>> \o CleanImgs(imgs, resps, i + 1)
       ELSE IF resps[i].ok
            THEN <<DataURI(resps[i])>> \o CleanImgs(imgs, resps, i + 1)
            ELSE CleanImgs(imgs, resps, i + 1)

clean_html(html, resps) ==
  [html |-> [imgs |-> CleanImgs(html.imgs, resps, 1)],
   gets |-> Cardinality(NetImgs(html))]

\* the src attributes an img of a document may carry: those of the crawled
\* pages, a src relative to the page and a data: URI with its scheme in
\* capitals
DocSrcs ==
  ImgSrcs \cup { <<"/", "y.png">>, <<"DATA", ":", "image/png;base64,AAAA">> }

Docs == [imgs : SeqsUpTo(DocSrcs, MaxDocImgs)]

\* clean_html(raw_html) is called with the document and returns
CleanDocument ==
  /\ ~cout.returned
  /\ \E c \in {clean_html(cdoc, cresps)} :
       cout' = [returned |-> TRUE, html |-> c.html, gets |-> c.gets]
  /\ UNCHANGED <<cdoc, cresps>>
  /\ UNCHANGED <<crawlVars, harvestVars, helperVars, wikiVars>>

\* ------------------------------------------------------ save_html_as_pdf
\* write_bytes: the file is created or replaced
write_bytes(dir, file, src) ==
  Put(dir, file, [src |-> src,
                  version |-> IF file \in DOMAIN dir THEN dir[file].version + 1
                              ELSE 1])

\* the conversion is run and the file written whatever result.err says
save_html_as_pdf_IgnoresErr(dir, url, html, resps, err) ==
  LET pdf_file == sanitize(url, "pdf")
  IN IF pdf_file \in DOMAIN dir
     THEN [dir |-> dir, gets |-> 0, converted |-> FALSE]
     ELSE [dir |-> write_bytes(dir, pdf_file, url),
           gets |-> clean_html(html, resps).gets, converted |-> TRUE]

\* clean_html is run before the file is looked for
save_html_as_pdf_CleansFirst(dir, url, html, resps, err) ==
  LET pdf_file == sanitize(url, "pdf")
      c == clean_html(html, resps)
  IN IF pdf_file \in DOMAIN dir
     THEN [dir |-> dir, gets |-> c.gets, converted |-> FALSE]
     ELSE [dir |-> IF err THEN dir ELSE write_bytes(dir, pdf_file, url),
           gets |-> c.gets, converted |-> TRUE]

\* the file is not looked for: every call converts and writes
save_html_as_pdf_NoExistsCheck(dir, url, html, resps, err) ==
  LET pdf_file == sanitize(url, "pdf")
  IN [dir |-> IF err THEN dir ELSE write_bytes(dir, pdf_file, url),
      gets |-> clean_html(html, resps).gets, converted |-> TRUE]

\* save_html_as_pdf(url, html): the directory after the call, the img GETs it
\* issued and whether it ran CreatePDF; resps[i] is the outcome of the GET for
\* the i-th img, err is result.err of pisa.CreatePDF
save_html_as_pdf(dir, url, html, resps, err) ==
  LET pdf_file == sanitize(url, "pdf")
  IN IF pdf_file \in DOMAIN dir
     THEN [dir |-> dir, gets |-> 0, converted |-> FALSE]
     ELSE LET c == clean_html(html, resps)
          IN IF err
             THEN [dir |-> dir, gets |-> c.gets, converted |-> TRUE]
             ELSE [dir |-> write_bytes(dir, pdf_file, url),
                   gets |-> c.gets, converted |-> TRUE]

\* ------------------------------------------------------------------ crawl
is_internal(link) ==
  LET p == urlparse(link)
  IN p.netloc = <<>> \/ p.netloc = urlparse(ROOT_URL).netloc

\* the body of crawl's loop for one anchor: the url to recurse into, or <<>>
\* when the anchor is passed over
LinkTarget(url, a) ==
  LET href == SplitHash(a)
      full == urljoin(url, href)
  IN IF startswith(lower(href), <<"mailto", ":">>) THEN <<>>
     ELSE IF is_internal(full) THEN full ELSE <<>>

Frame(url) == [url |-> url, pc |-> "enter", n |-> 0]
Top == stack[Len(stack)]
Pop == SubSeq(stack, 1, Len(stack) - 1)

\* the visited set is not looked at
AlreadyVisited_Never(url) == FALSE

\* a url counts as visited as soon as a page links to it
AlreadyVisited_OnDiscovery(url) ==
  url \in visited \/ \E p \in DOMAIN site : url \in site[p]

\* if url in visited
AlreadyVisited(url) == url \in visited

\* the url is never added
MarkVisited_Forgets(url) == visited

\* visited.add(url)
MarkVisited(url) == visited \cup {url}

\* the call is put off: its frame waits under the frames that are running
Call_Deferred(stk, url) == <<Frame(url)>> \o stk

\* crawl(full): the call runs before the caller's loop goes on
Call(stk, url) == Append(stk, Frame(url))

\* the exception of the GET is not caught: it unwinds every frame of crawl
OnFetchError_Raises == <<>>

\* except Exception: print, return
OnFetchError == Pop

\* a new process runs crawl(ROOT_URL): the module's visited set starts empty,
\* the directory is what the runs before left
CrawlStart ==
  /\ stack = <<>>
  /\ had' = pagesDir
  /\ visited' = {}
  /\ stack' = <<Frame(ROOT_URL)>>
  /\ fetches' = Empty
  /\ archives' = Empty
  /\ failed' = {}
  /\ renderErr' = {}
  /\ site' = Empty
  /\ lastSave' = NoSave
  /\ UNCHANGED <<pagesDir, hrefs, harvestVars, cleanVars, helperVars, wikiVars>>

\* crawl(url) for a url in visited: return
CrawlSkip ==
  /\ stack # <<>>
  /\ Top.pc = "enter"
  /\ AlreadyVisited(Top.url)
  /\ stack' = Pop
  /\ UNCHANGED <<visited, pagesDir, had, fetches, archives, failed, renderErr,
                 site, lastSave, hrefs, harvestVars, cleanVars, helperVars, wikiVars>>

\* crawl(url), the GET raises or raise_for_status raises: log and return
CrawlFetchFail ==
  /\ stack # <<>>
  /\ Top.pc = "enter"
  /\ ~AlreadyVisited(Top.url)
  /\ visited' = MarkVisited(Top.url)
  /\ fetches' = Bump(fetches, Top.url)
  /\ failed' = failed \cup {Top.url}
  /\ stack' = OnFetchError
  /\ UNCHANGED <<pagesDir, had, archives, renderErr, site, lastSave, hrefs, harvestVars, cleanVars, helperVars, wikiVars>>

\* crawl(url), the GET answers with a page: archive it, parse its anchors
CrawlFetchOk ==
  /\ stack # <<>>
  /\ Top.pc = "enter"
  /\ ~AlreadyVisited(Top.url)
  /\ CanFetch(Top.url)
  /\ \E html \in Pages, err \in BOOLEAN :
       \E resps \in ImgFetches(html.imgs, CrawlImgResponses) :
         \E s \in {save_html_as_pdf(pagesDir, Top.url, html, resps, err)} :
            /\ pagesDir' = s.dir
            /\ lastSave' = [url |-> Top.url,
                            existed |-> sanitize(Top.url, "pdf") \in DOMAIN pagesDir,
                            netImgs |-> Cardinality(NetImgs(html)),
                            gets |-> s.gets, converted |-> s.converted,
                            err |-> s.converted /\ err,
                            wrote |-> s.dir # pagesDir]
            /\ renderErr' = IF s.converted /\ err
                            THEN renderErr \cup {Top.url} ELSE renderErr
  /\ visited' = MarkVisited(Top.url)
  /\ fetches' = Bump(fetches, Top.url)
  /\ archives' = Bump(archives, Top.url)
  /\ site' = Put(site, Top.url, {})
  /\ stack' = [stack EXCEPT ![Len(stack)].pc = "loop"]
  /\ UNCHANGED <<had, failed, hrefs, harvestVars, cleanVars, helperVars, wikiVars>>

\* one turn of the loop over the anchors, the next anchor being a: pass over
\* it or call crawl
CrawlLink ==
  /\ stack # <<>>
  /\ Top.pc = "loop"
  /\ Top.n < MaxLinks
  /\ \E a \in hrefs :
       \E t \in {LinkTarget(Top.url, a)} :
          /\ stack' = IF t = <<>>
                      THEN [stack EXCEPT ![Len(stack)].n = Top.n + 1]
                      ELSE Call([stack EXCEPT ![Len(stack)].n = Top.n + 1], t)
          /\ site' = IF t = <<>> THEN site
                     ELSE Put(site, Top.url, site[Top.url] \cup {t})
  /\ UNCHANGED <<visited, pagesDir, had, fetches, archives, failed, renderErr,
                 lastSave, hrefs, harvestVars, cleanVars, helperVars, wikiVars>>

\* the page has no anchor left: the loop is over and crawl returns
CrawlReturn ==
  /\ stack # <<>>
  /\ Top.pc = "loop"
  /\ stack' = Pop
  /\ UNCHANGED <<visited, pagesDir, had, fetches, archives, failed, renderErr,
                 site, lastSave, hrefs, harvestVars, cleanVars, helperVars, wikiVars>>

\* ------------------------------------------------- download_release_pdfs
\* the hrefs an anchor of the release index page may carry
ReleaseHrefs ==
  { <<"/", "files", "/", "r1", ".", "PDF">>,
    <<"https", ":", "//", "drive", ".", "google", ".", "com", "/", "file", "/",
      "d", "/", "ABC123", "/", "view">>,
    <<"https", ":", "//", "drive", ".", "google", ".", "com", "/", "open", "?",
      "id", "=", "ABC123">>,
    <<"/", "notes", ".", "html">> }

\* the chunks a download may stream
PdfHead == <<"%PDF", "-1.7">>
HtmlPage == <<"<html>", "login", "</html>">>
Data == <<"obj">>

\* the bodies a download may stream, chunk by chunk: nothing, or a first
\* chunk that opens a PDF or an HTML page and chunks of data after it
Bodies ==
  {<<>>} \cup
  { <<h>> \o [i \in 1..k |-> Data] : h \in {PdfHead, HtmlPage}, k \in 0..(MaxChunks - 1) }

\* what session.get(pdf_url, stream=True) may do: raise, or answer with a
\* status and a body that streams its chunks and, when failAt > 0, raises in
\* place of the chunk failAt (after the last chunk when failAt = Len + 1)
Responses ==
  { r \in [raises : BOOLEAN, status : {200, 403, 404},
           body : Bodies, failAt : 0..(MaxChunks + 1)] :
      /\ r.failAt <= Len(r.body) + 1
      /\ r.raises => (r.status = 200 /\ r.body = <<>> /\ r.failAt = 0) }

NoDl == [href |-> <<>>, url |-> <<>>, existed |-> FALSE, got |-> FALSE, status |-> 0,
         first |-> <<>>, raised |-> FALSE, wrote |-> FALSE, counted |-> FALSE,
         body |-> <<>>]

\* re.search(r'/d/([a-zA-Z0-9_-]+)', href): the places of a match
DriveIdAt(href) ==
  {i \in 1..Len(href) :
     /\ i + 3 <= Len(href)
     /\ href[i] \in {"/", "//"}
     /\ href[i + 1] = "d"
     /\ href[i + 2] = "/"
     /\ href[i + 3] \notin Delims}

\* parse_qs(query).get('id', [None])[0]: the value of the first id=... pair
\* with a value that is not blank, up to the next "&"; <<>> for None
QueryId(query) ==
  LET I == {i \in 1..Len(query) :
              /\ i + 2 <= Len(query)
              /\ query[i] = "id"
              /\ query[i + 1] = "="
              /\ query[i + 2] # "&"
              /\ (i = 1 \/ query[i - 1] = "&")}
  IN IF I = {} THEN <<>>
     ELSE SplitAt(SubSeq(query, Min(I) + 2, Len(query)), "&").before

DirectLink(file_id) ==
  <<"https", ":", "//", "drive", ".", "google", ".", "com", "/", "uc", "?",
    "export", "=", "download", "&", "id", "=">> \o file_id

\* the identifier is looked for in the path only
get_drive_direct_link_PathOnly(href) ==
  IF DriveIdAt(href) # {} THEN DirectLink(<<href[Min(DriveIdAt(href)) + 3]>>)
  ELSE href

get_drive_direct_link(href) ==
  IF DriveIdAt(href) # {} THEN DirectLink(<<href[Min(DriveIdAt(href)) + 3]>>)
  ELSE IF QueryId(urlparse(href).query) # <<>>
       THEN DirectLink(QueryId(urlparse(href).query))
       ELSE href

\* any first chunk that is not empty passes
looks_like_pdf_AnyBytes(chunk) == chunk # <<>>

\* chunk.startswith(b"%PDF")
looks_like_pdf(chunk) == startswith(chunk, <<"%PDF">>)

\* the download url of an anchor, <<>> when the anchor is passed over
ResolveAnchor(href) ==
  IF endswith(lower(href), <<".", "pdf">>) THEN urljoin(BUILD_HISTORY, href)
  ELSE IF Contains(href, <<"drive", ".", "google", ".", "com">>)
       THEN get_drive_direct_link(href)
       ELSE <<>>

\* the destination is never found
dest_exists_Never(dir, dest) == FALSE

\* dest.exists()
dest_exists(dir, dest) == dest \in DOMAIN dir

\* open(dest, "wb") and the writes: the file holds the chunks written
WriteChunks(dir, dest, src, chunks) ==
  Put(dir, dest, [src |-> src, data |-> chunks,
                  version |-> IF dest \in DOMAIN dir THEN dir[dest].version + 1
                              ELSE 1])

\* next(r.iter_content(1024), b"")
FirstChunk(r) == IF r.body = <<>> THEN <<>> ELSE r.body[1]

\* the chunks r.iter_content(65536) yields after the first chunk, before the
\* stream ends or raises
RestChunks(r) ==
  IF r.failAt = 0 THEN Tail(r.body) ELSE SubSeq(r.body, 2, r.failAt - 1)

\* the first chunk was read to look at it and is not written
Written_DropsFirst(r) == RestChunks(r)

\* the chunks the with block writes: f.write(first_chunk), then f.write for
\* every chunk of the rest of the stream
Written(r) == <<FirstChunk(r)>> \o RestChunks(r)

\* the try block for a response that was not forbidden: the directory after
\* it and whether count was incremented
Stream(dir, dest, pdf_url, r) ==
  IF r.failAt = 1
  THEN [dir |-> dir, got |-> TRUE, counted |-> FALSE, raised |-> TRUE]
  ELSE IF ~looks_like_pdf(FirstChunk(r))
       THEN [dir |-> dir, got |-> TRUE, counted |-> FALSE, raised |-> FALSE]
       ELSE [dir |-> WriteChunks(dir, dest, pdf_url, Written(r)),
             got |-> TRUE, counted |-> r.failAt = 0, raised |-> r.failAt # 0]

\* the body of the loop from dest.exists() on, for the response r of the GET
Download(dir, dest, pdf_url, r) ==
  IF dest_exists(dir, dest)
  THEN [dir |-> dir, got |-> FALSE, counted |-> FALSE, raised |-> FALSE]
  ELSE IF r.raises
       THEN [dir |-> dir, got |-> TRUE, counted |-> FALSE, raised |-> TRUE]
       ELSE IF r.status = 403
            THEN [dir |-> dir, got |-> TRUE, counted |-> FALSE, raised |-> FALSE]
            ELSE Stream(dir, dest, pdf_url, r)

\* the exception of a download is not caught: download_release_pdfs ends
\* with it
OnDownloadError_Raises == "crashed"

\* except Exception: print, and the loop goes on
OnDownloadError == "loop"

\* download_release_pdfs is called and the GET of the index page fails: the
\* error is printed and the function returns
HarvestIndexFail ==
  /\ hpc # "loop"
  /\ hpc' = "done"
  /\ hn' = 0
  /\ count' = 0
  /\ dlGets' = Empty
  /\ saved' = Empty
  /\ lastDl' = NoDl
  /\ UNCHANGED <<relDir, crawlVars, cleanVars, helperVars, wikiVars>>

\* download_release_pdfs is called and the index page is fetched
HarvestIndexOk ==
  /\ hpc # "loop"
  /\ hpc' = "loop"
  /\ hn' = 0
  /\ count' = 0
  /\ dlGets' = Empty
  /\ saved' = Empty
  /\ lastDl' = NoDl
  /\ UNCHANGED <<relDir, crawlVars, cleanVars, helperVars, wikiVars>>

\* one turn of the loop, for an anchor that is passed over
HarvestPass ==
  /\ hpc = "loop"
  /\ hn < MaxAnchors
  /\ \E href \in ReleaseHrefs :
       /\ ResolveAnchor(href) = <<>>
       /\ lastDl' = [NoDl EXCEPT !.href = href]
  /\ hn' = hn + 1
  /\ UNCHANGED <<hpc, count, relDir, dlGets, saved, crawlVars, cleanVars, helperVars, wikiVars>>

\* one turn of the loop, for an anchor with a download url
HarvestAnchor ==
  /\ hpc = "loop"
  /\ hn < MaxAnchors
  /\ \E href \in ReleaseHrefs :
       \E pdf_url \in {ResolveAnchor(href)} \ {<<>>} :
       \E dest \in {sanitize(pdf_url, "pdf")} :
       \E r \in Responses :
       \E d \in {Download(relDir, dest, pdf_url, r)} :
          /\ relDir' = d.dir
          /\ count' = IF d.counted THEN count + 1 ELSE count
          /\ dlGets' = IF d.got THEN Bump(dlGets, pdf_url) ELSE dlGets
          /\ saved' = IF d.counted THEN Bump(saved, pdf_url) ELSE saved
          /\ lastDl' = [href |-> href, url |-> pdf_url,
                        existed |-> dest \in DOMAIN relDir,
                        got |-> d.got,
                        status |-> IF d.got /\ ~r.raises THEN r.status ELSE 0,
                        first |-> IF d.got /\ ~r.raises /\ r.failAt # 1
                                  THEN FirstChunk(r) ELSE <<>>,
                        raised |-> d.raised,
                        wrote |-> d.dir # relDir,
                        counted |-> d.counted,
                        body |-> IF d.counted THEN r.body ELSE <<>>]
          /\ hpc' = IF d.raised THEN OnDownloadError ELSE hpc
  /\ hn' = hn + 1
  /\ UNCHANGED <<crawlVars, cleanVars, helperVars, wikiVars>>

\* the index page has no anchor left: the total is printed
HarvestEnd ==
  /\ hpc = "loop"
  /\ hpc' = "done"
  /\ UNCHANGED <<hn, count, relDir, dlGets, saved, lastDl, crawlVars, cleanVars, helperVars, wikiVars>>

\* the state after the module is loaded, for a site whose anchors carry the
\* hrefs H and a document doc for clean_html, the GETs of its imgs answered
\* with resps
LoadedWith(H, doc, resps) ==
  /\ hrefs = H
  /\ visited = {}
  /\ stack = <<>>
  /\ pagesDir = Empty
  /\ had = Empty
  /\ fetches = Empty
  /\ archives = Empty
  /\ failed = {}
  /\ renderErr = {}
  /\ site = Empty
  /\ lastSave = NoSave
  /\ hpc = "idle"
  /\ hn = 0
  /\ count = 0
  /\ relDir = Empty
  /\ dlGets = Empty
  /\ saved = Empty
  /\ lastDl = NoDl
  /\ cdoc = doc
  /\ cresps = resps
  /\ cout = [returned |-> FALSE, html |-> [imgs |-> <<>>], gets |-> 0]
  /\ called = "none"
  /\ arg = <<>>
  /\ ret = <<>>
  /\ seen = {}
  /\ wstack = <<>>
  /\ wstate = "idle"
  /\ wfetches = {}
  /\ wfailed = {}
  /\ wikiDir = Empty

Loaded(H) == LoadedWith(H, [imgs |-> <<>>], <<>>)

Init == Loaded(CrawlHrefs)

\* the steps of a running crawl
CrawlStep ==
  \/ CrawlSkip
  \/ CrawlFetchFail
  \/ CrawlFetchOk
  \/ CrawlLink
  \/ CrawlReturn

Next ==
  \/ CrawlStart
  \/ CrawlStep

Spec == Init /\ [][Next]_vars

\* the crawl of a site whose pages also carry hrefs of schemes without a
\* host
SchemeInit == Loaded(SchemeHrefs)

SchemeSpec == SchemeInit /\ [][Next]_vars

HarvestNext ==
  \/ HarvestIndexFail
  \/ HarvestIndexOk
  \/ HarvestPass
  \/ HarvestAnchor
  \/ HarvestEnd

HarvestSpec == Init /\ [][HarvestNext]_vars

\* ------------------------------------------------ helpers on their own
\* the identifiers a share link may carry
DriveIds == { <<"ABC123">>, <<"1a-B_c9">> }

DriveHosts ==
  { <<"https", ":", "//", "drive", ".", "google", ".", "com">>,
    <<"https", ":", "//", "docs", ".", "google", ".", "com">> }

\* the paths of the share links of an identifier: with the identifier as the
\* segment after /d/, and without it
DrivePaths(id) ==
  { <<"/", "file", "/", "d", "/">> \o id \o <<"/", "view">>,
    <<"/", "file", "/", "d", "/">> \o id,
    <<"/", "a", "/", "example", ".", "com", "/", "file", "/", "d", "/">> \o id
       \o <<"/", "edit">>,
    <<"/", "open">>,
    <<"/", "uc">>,
    <<"/", "drive", "/", "my-drive">> }

\* the queries of the share links of an identifier: with the identifier as
\* the parameter id, and without it
DriveQueries(id) ==
  { <<>>,
    <<"?", "usp", "=", "sharing">>,
    <<"?", "id", "=">> \o id,
    <<"?", "id", "=">> \o id \o <<"&", "export", "=", "download">>,
    <<"?", "export", "=", "download", "&", "id", "=">> \o id,
    <<"?", "id", "=", "&", "usp", "=", "sharing">> }

\* the share links of the model, each with the identifier it carries (<<>>
\* when it carries none)
DriveLinks ==
  UNION { { [href |-> h \o p \o q,
             id |-> IF Contains(p, id) \/ Contains(q, id) THEN id ELSE <<>>] :
              h \in DriveHosts, p \in DrivePaths(id), q \in DriveQueries(id) } :
          id \in DriveIds }

\* get_drive_direct_link(href) is called with a share link
CallGetDriveDirectLink ==
  /\ \E l \in DriveLinks :
       /\ called' = "get_drive_direct_link"
       /\ arg' = l
       /\ ret' = get_drive_direct_link(l.href)
  /\ UNCHANGED <<crawlVars, harvestVars, cleanVars, wikiVars>>

\* the candidates is_internal may be called with: with and without a scheme,
\* with and without a host, the host with a port or in capitals
CandidateSchemes == { <<>>, <<"https", ":">>, <<"http", ":">> }

CandidateNetlocs ==
  { <<>>,
    <<"//", "example", ".", "com">>,
    <<"//", "other", ".", "example", ".", "com">>,
    <<"//", "notexample", ".", "com">>,
    <<"//", "example", ".", "org">>,
    <<"//", "example", ".", "com", ":", "443">>,
    <<"//", "EXAMPLE", ".", "com">> }

CandidatePaths == { <<>>, <<"/", "relative", "/", "path">>, <<"/", "x">>, <<"x">> }

\* a path that does not start with "/" follows no host
Candidates ==
  { c[1] \o c[2] \o c[3] :
      c \in { t \in CandidateSchemes \X CandidateNetlocs \X CandidatePaths :
                t[2] = <<>> \/ t[3] = <<>> \/ t[3][1] = "/" } }
    \cup { <<"tel", ":", "1">>, <<"mailto", ":", "x@y">> }

\* is_internal(link) is called with a candidate
CallIsInternal ==
  /\ \E c \in Candidates :
       /\ called' = "is_internal"
       /\ arg' = c
       /\ ret' = is_internal(c)
  /\ UNCHANGED <<crawlVars, harvestVars, cleanVars, wikiVars>>

HelperNext ==
  \/ CallGetDriveDirectLink
  \/ CallIsInternal

HelperSpec == Init /\ [][HelperNext]_vars

\* ------------------------------------------------ scrap_wiki.py
START_URL == <<"https", ":", "//", "example", ".", "com", "/", "home">>
base_netloc == urlparse(START_URL).netloc

\* the hrefs an anchor of the navigation of a wiki page may carry
WikiHrefs ==
  { <<"/", "a">>,
    <<"/", "home", "#", "top">>,
    <<"https", ":", "//", "sub", ".", "example", ".", "com", "/", "home">>,
    <<"https", ":", "//", "notexample", ".", "com", "/", "home">>,
    <<"https", ":", "//", "example", ".", "org", "/", "x">> }

\* a token ends with a token: the same token, or one of the pairs of the
\* model's host names
TokEndsWith(t, p) == t = p \/ <<t, p>> \in { <<"notexample", "example">> }

\* str.endswith on token strings: the first token of the suffix may be the
\* end of a token
str_endswith(s, p) ==
  \/ p = <<>>
  \/ /\ Len(s) >= Len(p)
     /\ TokEndsWith(s[Len(s) - Len(p) + 1], p[1])
     /\ SubSeq(s, Len(s) - Len(p) + 2, Len(s)) = Tail(p)

\* is_internal of scrap_wiki.py
wiki_is_internal(link) ==
  LET parsed == urlparse(link)
  IN parsed.netloc = <<>> \/ str_endswith(parsed.netloc, base_netloc)

\* save_text: the file name is made of the path of the url alone
WikiFile(url) ==
  LET p == StripSlashes(urlparse(url).path)
  IN IF p = <<>> THEN <<"home", ".", "txt">>
     ELSE [i \in 1..Len(p) |-> IF p[i] = "/" THEN "_" ELSE p[i]] \o <<".", "txt">>

\* the body of crawl_page's loop for one anchor: the url to call crawl_page
\* with, <<>> when the anchor is passed over
WikiTarget(url, a, sn) ==
  LET full == urljoin(url, SplitHash(a))
  IN IF wiki_is_internal(full) /\ full \notin sn THEN full ELSE <<>>

WTop == wstack[Len(wstack)]

\* a new process runs crawl_page(START_URL)
WikiStart ==
  /\ wstack = <<>>
  /\ seen' = {}
  /\ wstack' = <<Frame(START_URL)>>
  /\ wstate' = "running"
  /\ wfetches' = {}
  /\ wfailed' = {}
  /\ UNCHANGED <<wikiDir, crawlVars, harvestVars, cleanVars, helperVars>>

\* crawl_page(url), requests.get or raise_for_status raises: nothing catches
\* the exception, in crawl_page or under __main__, and the process ends
WikiFetchFail ==
  /\ wstack # <<>>
  /\ WTop.pc = "enter"
  /\ WTop.url \notin seen
  /\ seen' = seen \cup {WTop.url}
  /\ wfetches' = wfetches \cup {WTop.url}
  /\ wfailed' = wfailed \cup {WTop.url}
  /\ wstack' = <<>>
  /\ wstate' = "crashed"
  /\ UNCHANGED <<wikiDir, crawlVars, harvestVars, cleanVars, helperVars>>

\* crawl_page(url), the page is fetched and has neither the container
\* save_text selects nor a body: container is None and get_text raises
WikiSaveFail ==
  /\ wstack # <<>>
  /\ WTop.pc = "enter"
  /\ WTop.url \notin seen
  /\ CanFetch(WTop.url)
  /\ seen' = seen \cup {WTop.url}
  /\ wfetches' = wfetches \cup {WTop.url}
  /\ wstack' = <<>>
  /\ wstate' = "crashed"
  /\ UNCHANGED <<wfailed, wikiDir, crawlVars, harvestVars, cleanVars, helperVars>>

\* crawl_page(url), the page is fetched and its text saved
WikiFetchOk ==
  /\ wstack # <<>>
  /\ WTop.pc = "enter"
  /\ WTop.url \notin seen
  /\ CanFetch(WTop.url)
  /\ seen' = seen \cup {WTop.url}
  /\ wfetches' = wfetches \cup {WTop.url}
  /\ wikiDir' = Put(wikiDir, WikiFile(WTop.url), WTop.url)
  /\ wstack' = [wstack EXCEPT ![Len(wstack)].pc = "loop"]
  /\ UNCHANGED <<wstate, wfailed, crawlVars, harvestVars, cleanVars, helperVars>>

\* one turn of the loop over the anchors of the navigation
WikiLink ==
  /\ wstack # <<>>
  /\ WTop.pc = "loop"
  /\ WTop.n < MaxLinks
  /\ \E a \in WikiHrefs :
       \E t \in {WikiTarget(WTop.url, a, seen)} :
          wstack' = IF t = <<>>
                    THEN [wstack EXCEPT ![Len(wstack)].n = WTop.n + 1]
                    ELSE Append([wstack EXCEPT ![Len(wstack)].n = WTop.n + 1],
                                Frame(t))
  /\ UNCHANGED <<seen, wstate, wfetches, wfailed, wikiDir, crawlVars, harvestVars,
                 cleanVars, helperVars>>

\* the navigation has no anchor left: crawl_page returns
WikiReturn ==
  /\ wstack # <<>>
  /\ WTop.pc = "loop"
  /\ wstack' = SubSeq(wstack, 1, Len(wstack) - 1)
  /\ wstate' = IF Len(wstack) = 1 THEN "done" ELSE wstate
  /\ UNCHANGED <<seen, wfetches, wfailed, wikiDir, crawlVars, harvestVars,
                 cleanVars, helperVars>>

WikiNext ==
  \/ WikiStart
  \/ WikiFetchFail
  \/ WikiSaveFail
  \/ WikiFetchOk
  \/ WikiLink
  \/ WikiReturn

WikiSpec == Init /\ [][WikiNext]_vars

CleanNext == CleanDocument

\* clean_html is handed any document, its imgs answered in any way
CleanInit ==
  \E doc \in Docs :
    \E resps \in ImgFetches(doc.imgs, ImgResponses) :
      LoadedWith(CrawlHrefs, doc, resps)

CleanSpec == CleanInit /\ [][CleanNext]_vars

\* ------------------------------------------------------- crawl: claims
\* the host of a URL: its netloc without the port, in lower case
HostOf(url) ==
  LET n == urlparse(url).netloc
      c == Find(n, {":"})
  IN lower(IF c = 0 THEN n ELSE SubSeq(n, 1, c - 1))

\* the urls reachable from the root by the anchors of the pages fetched
RECURSIVE ReachFrom(_)
ReachFrom(S) ==
  LET N == S \cup UNION {site[u] : u \in S \cap DOMAIN site}
  IN IF N = S THEN S ELSE ReachFrom(N)

Reachable == ReachFrom({ROOT_URL})

\* crawl(ROOT_URL) has returned
Finished == stack = <<>> /\ ROOT_URL \in visited

RECURSIVE SumOf(_, _)
SumOf(f, D) ==
  IF D = {} THEN 0
  ELSE LET u == CHOOSE u \in D : TRUE IN f[u] + SumOf(f, D \ {u})

TotalFetches == SumOf(fetches, DOMAIN fetches)

\* every url the anchors of the site can lead crawl to: the site graph is
\* finite
RECURSIVE CloseUnderLinks(_)
CloseUnderLinks(S) ==
  LET N == S \cup ({LinkTarget(u, a) : u \in S, a \in CrawlHrefs} \ {<<>>})
  IN IF N = S THEN S ELSE CloseUnderLinks(N)

CrawlUrls == CloseUnderLinks({ROOT_URL})

\* the work crawl has left: the urls not yet visited, each worth a frame and
\* its loop, and the steps the frames on the stack have left
FrameWork(f) == IF f.pc = "enter" THEN 1 ELSE 1 + 2 * (MaxLinks - f.n)

RECURSIVE StackWork(_, _)
StackWork(stk, i) == IF i > Len(stk) THEN 0 ELSE FrameWork(stk[i]) + StackWork(stk, i + 1)

WorkLeft ==
  (2 * MaxLinks + 1) * Cardinality(CrawlUrls \ visited) + StackWork(stack, 1)

PdfOf(u) == sanitize(u, "pdf")

\* C1: in one run of crawl every url is fetched at most once and
\* save_html_as_pdf is called at most once for it; a url whose fetch failed
\* has been fetched once and no more, whatever links to it.
C1_FetchedAtMostOnce ==
  \A u \in DOMAIN fetches \cup DOMAIN archives \cup failed :
    /\ Count(fetches, u) <= 1
    /\ Count(archives, u) <= 1
    /\ u \in failed => Count(fetches, u) = 1

\* C1 witness: a run has ended in which a url whose fetch failed is linked
\* from two pages.
C1_Witness ==
  /\ Finished
  /\ \E u \in failed : \E p, q \in DOMAIN site :
       p # q /\ u \in site[p] /\ u \in site[q] /\ Count(fetches, u) = 1

C3_TerminatesWithinReachable ==
  /\ [](/\ TotalFetches <= Cardinality(Reachable)
        /\ visited \subseteq CrawlUrls
        /\ WorkLeft >= 0
        /\ stack # <<>> => Top.pc \in {"enter", "loop"})
  /\ [][stack # <<>> => WorkLeft' < WorkLeft]_vars

\* C3 witness: a run has ended over a site with a cycle (a page links back to
\* the root), a page with two parents, and a failed fetch.
C3_Witness ==
  /\ Finished
  /\ failed # {}
  /\ \E p \in DOMAIN site : p # ROOT_URL /\ ROOT_URL \in site[p]
  /\ \E p, q \in DOMAIN site : p # q /\ site[p] \cap site[q] # {}
  /\ TotalFetches = Cardinality(Reachable)

\* C4: when no fetch of the run failed, the urls visited at the end of the run
\* are the urls reachable from the root, each fetched once, whatever the order
\* of the anchors.
C4_VisitsExactlyReachable ==
  (Finished /\ failed = {}) =>
    /\ visited = Reachable
    /\ \A u \in visited : Count(fetches, u) = 1

\* C4 witness: the root links to two pages, one of which links back to the
\* root and to the other; all three are visited and no fetch failed.
C4_Witness ==
  /\ Finished
  /\ failed = {}
  /\ Cardinality(visited) = 3
  /\ Cardinality(site[ROOT_URL]) = 2
  /\ \E p \in DOMAIN site :
       p # ROOT_URL /\ ROOT_URL \in site[p] /\ Cardinality(site[p]) = 2

\* C5: a url whose fetch failed has nothing archived and no link followed,
\* and the run goes on: the failing call alone returns, the calls above it
\* stay where they were in their loops, and at the end of the run every url
\* reachable through the pages that were fetched is visited.
C5_FetchFailureIsLocal ==
  /\ [](/\ \A u \in failed :
            /\ Count(archives, u) = 0
            /\ u \notin DOMAIN site
            /\ PdfOf(u) \in DOMAIN pagesDir =>
                 PdfOf(u) \in DOMAIN had /\ pagesDir[PdfOf(u)] = had[PdfOf(u)]
        /\ Finished => Reachable \subseteq visited)
  /\ [][failed' # failed /\ stack # <<>> =>
         /\ Len(stack') = Len(stack) - 1
         /\ \A i \in 1..Len(stack') : stack'[i] = stack[i]]_vars

\* C5 witness: a run has ended in which a page has two links, the fetch of
\* one failed and the other was fetched and archived.
C5_Witness ==
  /\ Finished
  /\ \E p \in DOMAIN site : \E u, v \in site[p] :
       u \in failed /\ v \notin failed /\ v # p /\ Count(archives, v) = 1

C10_ExistingEntryKept ==
  /\ [](lastSave.existed =>
          lastSave.gets = 0 /\ ~lastSave.converted /\ ~lastSave.wrote)
  /\ [][\A f \in DOMAIN pagesDir :
          f \in DOMAIN pagesDir' /\ pagesDir'[f] = pagesDir[f]]_vars

\* C10 witness: save_html_as_pdf was called for a page that carries an img to
\* fetch and whose file existed, and the file is in its first version.
C10_Witness ==
  /\ lastSave.existed
  /\ lastSave.netImgs > 0
  /\ pagesDir[PdfOf(lastSave.url)].version = 1

\* ---------------------------------------- download_release_pdfs: claims
RelOf(u) == sanitize(u, "pdf")

\* C7: when the first chunk of a download does not begin with %PDF the anchor
\* is skipped: nothing is written, the destination does not exist afterwards
\* and the anchor is not counted; and every file of the releases directory
\* begins with %PDF.
C7_OnlyPdfIsWritten ==
  /\ (lastDl.got /\ lastDl.status \notin {0, 403} /\ ~lastDl.raised
        /\ ~startswith(lastDl.first, <<"%PDF">>)) =>
       /\ ~lastDl.wrote
       /\ ~lastDl.counted
       /\ RelOf(lastDl.url) \notin DOMAIN relDir
  /\ \A f \in DOMAIN relDir :
       relDir[f].data # <<>> /\ startswith(relDir[f].data[1], <<"%PDF">>)

\* C7 witness: a download answered 200 with an HTML page as its first chunk
\* and was skipped, next to a file that was written.
C7_Witness ==
  /\ lastDl.got
  /\ lastDl.status = 200
  /\ lastDl.first = HtmlPage
  /\ ~lastDl.wrote
  /\ relDir # Empty

\* C8 as stated: a download answered with a status that is not 2xx is
\* skipped: nothing is written and the anchor is not counted, whatever the
\* body.
C8_Non2xxIsSkipped ==
  (lastDl.got /\ lastDl.status # 0 /\ lastDl.status \notin 200..299) =>
    ~lastDl.wrote /\ ~lastDl.counted

\* C9: an anchor whose destination exists issues no GET, writes nothing and
\* is not counted; no download url is counted twice in a run; and no step
\* changes or removes a file the releases directory holds.
C9_ExistingDownloadKept ==
  /\ [](/\ lastDl.existed => ~lastDl.got /\ ~lastDl.wrote /\ ~lastDl.counted
        /\ \A u \in DOMAIN saved : saved[u] <= 1
        /\ \A f \in DOMAIN relDir : relDir[f].version = 1)
  /\ [][\A f \in DOMAIN relDir :
          f \in DOMAIN relDir' /\ relDir'[f] = relDir[f]]_vars

\* C9 witness: the second anchor of a run resolves to a url the first anchor
\* of that run, another href, has downloaded: it is skipped, the url has one
\* GET and is counted once.
C9_Witness ==
  /\ lastDl.existed
  /\ hn = 2
  /\ count = 1
  /\ Count(saved, lastDl.url) = 1
  /\ Count(dlGets, lastDl.url) = 1
  /\ Contains(lastDl.href, <<"?", "id", "=">>)
  /\ Cardinality(DOMAIN relDir) = 1

C15_VisitedAreInternal ==
  /\ \A u \in visited \ {ROOT_URL} :
       /\ urlparse(u).scheme \in {"http", "https"}
       /\ urlparse(u).netloc # <<>>
       /\ Find(u, {"#"}) = 0
       /\ HostOf(u) = HostOf(ROOT_URL)
  /\ \A u \in DOMAIN fetches :
       /\ HostOf(u) \in {<<>>, HostOf(ROOT_URL)}
       /\ urlparse(u).scheme # "mailto"

\* ------------------------------------------------- clean_html: claims
\* the sextet a base64 character stands for
B64Val(c) == CHOOSE v \in 0..63 : B64Chars[v + 1] = c

\* the bytes a base64 text stands for
RECURSIVE b64decode(_)
b64decode(text) ==
  IF Len(text) < 4 THEN <<>>
  ELSE LET a == B64Val(text[1])
           b == B64Val(text[2])
       IN (IF text[3] = "=" THEN <<a * 4 + b \div 16>>
           ELSE IF text[4] = "="
                THEN <<a * 4 + b \div 16, (b % 16) * 16 + B64Val(text[3]) \div 4>>
                ELSE <<a * 4 + b \div 16, (b % 16) * 16 + B64Val(text[3]) \div 4,
                       (B64Val(text[3]) % 4) * 64 + B64Val(text[4])>>)
          \o b64decode(SubSeq(text, 5, Len(text)))

\* src is a data: URI of the content type the response declares (image/png
\* when it declares none) and of the base64 text of the response's body
Embeds(src, resp) ==
  LET c == Find(src, {","})
  IN /\ IsDataURI(src)
     /\ c >= 5
     /\ SubSeq(src, c - 2, c) = <<";", "base64", ",">>
     /\ SubSeq(src, 3, c - 3) =
          (IF "Content-Type" \in DOMAIN resp.headers
           THEN resp.headers["Content-Type"] ELSE <<"image/png">>)
     /\ b64decode(SubSeq(src, c + 1, Len(src))) = resp.content

\* the imgs of the document clean_html was called with that it keeps
KeptImgs == {i \in 1..Len(cdoc.imgs) : IsDataURI(cdoc.imgs[i]) \/ cresps[i].ok}

\* C11: after clean_html every img left has a data: src. The imgs left are,
\* in document order, the imgs that had a data: src, unchanged, and the imgs
\* whose fetch succeeded, each with a data: URI of the declared content type
\* and the base64 of the body; an img whose fetch fails is gone, and every
\* img without a data: src was fetched, whatever happened to the imgs before
\* it.
C11_NoNetworkImgRemains ==
  cout.returned =>
  /\ \A k \in 1..Len(cout.html.imgs) : IsDataURI(cout.html.imgs[k])
  /\ Len(cout.html.imgs) = Cardinality(KeptImgs)
  /\ \A i \in KeptImgs :
       LET k == Cardinality({j \in KeptImgs : j <= i})
       IN IF IsDataURI(cdoc.imgs[i]) THEN cout.html.imgs[k] = cdoc.imgs[i]
          ELSE Embeds(cout.html.imgs[k], cresps[i])
  /\ cout.gets = Cardinality({i \in 1..Len(cdoc.imgs) : ~IsDataURI(cdoc.imgs[i])})

\* C11 witness: a document of two imgs to fetch was cleaned; the fetch of the
\* first failed, the second was answered with a declared content type and a
\* body, and one img is left.
C11_Witness ==
  /\ cout.returned
  /\ Len(cdoc.imgs) = 2
  /\ \A i \in 1..2 : ~IsDataURI(cdoc.imgs[i])
  /\ ~cresps[1].ok
  /\ cresps[2].ok
  /\ "Content-Type" \in DOMAIN cresps[2].headers
  /\ Len(cresps[2].content) = 2
  /\ Len(cout.html.imgs) = 1
  /\ cout.gets = 2

\* ---------------------------------------------------- helpers: claims
\* C12: a share link that carries an identifier, as the path segment after
\* /d/ or as the query parameter id, is mapped to
\* https://drive.google.com/uc?export=download&id=<id> with that identifier.
C12_DriveLinkResolves ==
  (called = "get_drive_direct_link" /\ arg.id # <<>>) =>
    ret = urlunparse([scheme |-> "https",
                      netloc |-> <<"drive", ".", "google", ".", "com">>,
                      path |-> <<"/", "uc">>,
                      query |-> <<"export", "=", "download", "&", "id", "=">> \o arg.id,
                      fragment |-> <<>>])

\* C12 witness: https://drive.google.com/file/d/ABC123/view was resolved to
\* https://drive.google.com/uc?export=download&id=ABC123.
C12_Witness ==
  /\ called = "get_drive_direct_link"
  /\ arg.href = <<"https", ":", "//", "drive", ".", "google", ".", "com", "/", "file",
                  "/", "d", "/", "ABC123", "/", "view">>
  /\ ret = <<"https", ":", "//", "drive", ".", "google", ".", "com", "/", "uc", "?",
             "export", "=", "download", "&", "id", "=", "ABC123">>

\* C13 as stated: is_internal is true for a candidate without a host and,
\* for a candidate with a host, true exactly when the host is the root's.
C13_InternalIffSameHost ==
  called = "is_internal" =>
    ret = (HostOf(arg) = <<>> \/ HostOf(arg) = HostOf(ROOT_URL))

\* the downloads counted in this run
TotalSaved == SumOf(saved, DOMAIN saved)

\* C16: a download that is refused, rejected or raises ends its own turn of
\* the loop only: the run never ends on it, every turn of the loop takes the
\* next anchor and leaves the loop running, and the loop ends with the count
\* of the downloads saved; a run whose fetch of the index page fails ends at
\* once with no GET of a download and no file written.
C16_DownloadErrorsAreLocal ==
  /\ [](/\ hpc \in {"idle", "loop", "done"}
        /\ count = TotalSaved
        /\ hn <= MaxAnchors)
  /\ [][/\ (hpc = "loop" /\ hn' # hn) => (hpc' = "loop" /\ hn' = hn + 1)
        /\ (hpc = "loop" /\ hn' = hn) => (hpc' = "done" /\ count' = count)
        /\ (hpc # "loop" /\ hpc' = "done") =>
              (relDir' = relDir /\ dlGets' = Empty /\ count' = 0)]_vars

\* C16 witness: a run has ended after two anchors; the download of the first
\* was refused, rejected or raised, the download of the second was saved and
\* counted.
C16_Witness ==
  /\ hpc = "done"
  /\ hn >= 2
  /\ count = 1
  /\ lastDl.counted
  /\ \E u \in DOMAIN dlGets : u \notin DOMAIN saved

\* C17: a download that is accepted and streamed to its end leaves at the
\* destination the chunks of the response in the order of the stream, the
\* first chunk, the one that was looked at, first, and adds one to the count;
\* a turn of the loop that saves nothing leaves the count as it was.
C17_FileIsTheStream ==
  [][(hpc = "loop" /\ hn' # hn) =>
       IF lastDl'.counted
       THEN /\ RelOf(lastDl'.url) \in DOMAIN relDir'
            /\ relDir'[RelOf(lastDl'.url)].data = lastDl'.body
            /\ relDir'[RelOf(lastDl'.url)].data[1] = lastDl'.first
            /\ looks_like_pdf(lastDl'.first)
            /\ count' = count + 1
       ELSE count' = count]_vars

\* C17 witness: a download of more than one chunk has been saved and
\* counted, and the file holds its chunks.
C17_Witness ==
  /\ lastDl.counted
  /\ Len(lastDl.body) >= 2
  /\ relDir[RelOf(lastDl.url)].data = lastDl.body
  /\ count >= 1

\* C20 as stated: a download that raised leaves no file at its destination
\* (so that a later run fetches it again), and every file of the releases
\* directory is a download that was streamed to its end.
C20_FailedDownloadLeavesNoFile ==
  (lastDl.raised /\ ~lastDl.existed) => RelOf(lastDl.url) \notin DOMAIN relDir

\* ------------------------------------------------ scrap_wiki.py: claims
\* C18 as stated: a fetch that fails in crawl_page is not fatal to the run:
\* no run in which a fetch failed has ended with an exception.
C18_WikiFetchFailureIsLocal ==
  wfailed # {} => wstate # "crashed"

\* the host is the root's host or a subdomain of it
SameSite(url) ==
  \/ HostOf(url) = HostOf(START_URL)
  \/ endswith(HostOf(url), <<".">> \o HostOf(START_URL))

\* C19 as stated: every url crawl_page fetches, the start url aside, is of the
\* root's host or of a subdomain of it.
C19_WikiFetchesSameSite ==
  \A u \in wfetches \ {START_URL} : SameSite(u)

====
